---- MODULE Spec2Model ----
(***************************************************************************)
(* A model of homework/http_server.py: the response builders, the request  *)
(* parser, the URI resolver and the accept loop of server().               *)
(*                                                                         *)
(* Text (str) is a sequence of one-character strings; bytes is a sequence  *)
(* of byte tokens.  An ASCII byte and its character are the same token.    *)
(* "xC3" "xA9" are the two bytes of the UTF-8 encoding of the character    *)
(* "U+E9"; each of them alone is not valid UTF-8.  A status line, the      *)
(* "Content-Type: " prefix and a mimetype are single tokens of a response: *)
(* none of them holds a CR or an LF.                                       *)
(***************************************************************************)
EXTENDS Integers, Sequences, FiniteSets, TLC

\* Longest content of the text file of the webroot, in bytes.
MaxLen == 2

CRLF == <<"\r", "\n">>

-----------------------------------------------------------------------------
(* bytes.decode('utf8'), str.encode('utf8'), text-mode newline translation *)

RECURSIVE Utf8Decode(_)
Utf8Decode(b) ==
    IF b = <<>> THEN [ok |-> TRUE, text |-> <<>>]
    ELSE IF b[1] = "xC3"
         THEN IF Len(b) >= 2 /\ b[2] = "xA9"
              THEN LET r == Utf8Decode(SubSeq(b, 3, Len(b)))
                   IN  [ok |-> r.ok, text |-> IF r.ok THEN <<"U+E9">> \o r.text ELSE <<>>]
              ELSE [ok |-> FALSE, text |-> <<>>]
    ELSE IF b[1] \in {"xA9", "xFF"}
         THEN [ok |-> FALSE, text |-> <<>>]
    ELSE LET r == Utf8Decode(Tail(b))
         IN  [ok |-> r.ok, text |-> IF r.ok THEN <<b[1]>> \o r.text ELSE <<>>]

RECURSIVE Utf8Encode(_)
Utf8Encode(t) ==
    IF t = <<>> THEN <<>>
    ELSE (IF t[1] = "U+E9" THEN <<"xC3", "xA9">> ELSE <<t[1]>>) \o Utf8Encode(Tail(t))

\* What a file opened with mode "r" (newline=None) does to the decoded text:
\* "\r\n" and a lone "\r" both become "\n".
RECURSIVE UniversalNewlines(_)
UniversalNewlines(t) ==
    IF t = <<>> THEN <<>>
    ELSE IF t[1] = "\r"
         THEN IF Len(t) >= 2 /\ t[2] = "\n"
              THEN <<"\n">> \o UniversalNewlines(SubSeq(t, 3, Len(t)))
              ELSE <<"\n">> \o UniversalNewlines(Tail(t))
    ELSE <<t[1]>> \o UniversalNewlines(Tail(t))

-----------------------------------------------------------------------------
(* sep.join(list), s.split(sep, 1)[0], s.split(), s.split("/")             *)

RECURSIVE Join(_, _)
Join(sep, parts) ==
    IF parts = <<>> THEN <<>>
    ELSE IF Len(parts) = 1 THEN parts[1]
    ELSE parts[1] \o sep \o Join(sep, Tail(parts))

\* request.split("\r\n", 1)[0]: the text before the first CR LF, or all of it.
RECURSIVE FirstLine(_)
FirstLine(s) ==
    IF s = <<>> THEN <<>>
    ELSE IF Len(s) >= 2 /\ s[1] = "\r" /\ s[2] = "\n" THEN <<>>
    ELSE <<s[1]>> \o FirstLine(Tail(s))

Whitespace == {" ", "\t", "\r", "\n"}

\* str.split() with no separator: the maximal runs of non-whitespace.
\* `cur` is the token being read.
RECURSIVE SplitWs(_, _)
SplitWs(s, cur) ==
    IF s = <<>> THEN (IF cur = <<>> THEN <<>> ELSE <<cur>>)
    ELSE IF s[1] \in Whitespace
         THEN (IF cur = <<>> THEN <<>> ELSE <<cur>>) \o SplitWs(Tail(s), <<>>)
    ELSE SplitWs(Tail(s), Append(cur, s[1]))

\* The components of a path string: the pieces between "/" characters
\* (empty pieces included, as the kernel sees them).
RECURSIVE SplitPath(_, _)
SplitPath(s, cur) ==
    IF s = <<>> THEN <<cur>>
    ELSE IF s[1] = "/" THEN <<cur>> \o SplitPath(Tail(s), <<>>)
    ELSE SplitPath(Tail(s), Append(cur, s[1]))

-----------------------------------------------------------------------------
(* The response builders                                                   *)

response_ok(body, mimetype) ==
    Join(CRLF, << <<"HTTP/1.1 200 OK">>,
                  <<"Content-Type: ">> \o mimetype,
                  <<>>,
                  body >>)

response_method_not_allowed ==
    Join(CRLF, << <<"HTTP/1.1 405 Method Not Allowed">>, <<>> >>)

response_not_found ==
    Join(CRLF, << <<"HTTP/1.1 404 Not Found">>, <<>> >>)

response_unsupported_media_type ==
    Join(CRLF, << <<"HTTP/1.1 415 Unsupported Media Type">>, <<>> >>)

-----------------------------------------------------------------------------
(* The request parser                                                      *)

S_GET == <<"G", "E", "T">>

\* parse_request without its method check.
parse_request_any_method(request) ==
    LET first_line == FirstLine(request)
        tokens     == SplitWs(first_line, <<>>)
    IN  IF Len(tokens) # 3
        THEN [exc |-> "ValueError", uri |-> <<>>]
        ELSE [exc |-> "none", uri |-> tokens[2]]

parse_request(request) ==
    LET first_line == FirstLine(request)
        tokens     == SplitWs(first_line, <<>>)
    IN  IF Len(tokens) # 3
        THEN [exc |-> "ValueError", uri |-> <<>>]
        ELSE IF tokens[1] # S_GET
        THEN [exc |-> "NotImplementedError", uri |-> <<>>]
        ELSE [exc |-> "none", uri |-> tokens[2]]

-----------------------------------------------------------------------------
(* The filesystem the server runs on.  A node is named by its absolute     *)
(* path, a sequence of names; a name is a sequence of characters.          *)
(*                                                                         *)
(*   /srv                   the directory server() is started in           *)
(*   /srv/secret.txt        a file beside the webroot                      *)
(*   /srv/webroot           the webroot (server()'s default: ./webroot)    *)
(*   /srv/webroot/a.txt     a text file, of any content up to MaxLen bytes *)
(*   /srv/webroot/a.bin     a file of a mapped, non-text type              *)
(*   /srv/webroot/a.zz      a file whose extension has no mimetype mapping *)
(*   /srv/webroot/pipe      a fifo: neither a directory nor a regular file *)
(*   /srv/webroot/sub       a directory holding any of .h, b.txt           *)

N_srv     == <<"s", "r", "v">>
N_webroot == <<"w", "e", "b", "r", "o", "o", "t">>
N_secret  == <<"s", "e", "c", "r", "e", "t", ".", "t", "x", "t">>
N_a_txt   == <<"a", ".", "t", "x", "t">>
N_a_bin   == <<"a", ".", "b", "i", "n">>
N_a_zz    == <<"a", ".", "z", "z">>
N_pipe    == <<"p", "i", "p", "e">>
N_sub     == <<"s", "u", "b">>
N_hidden  == <<".", "h">>
N_b_txt   == <<"b", ".", "t", "x", "t">>

RootDir    == <<>>
StartupDir == <<N_srv>>
WebRoot    == <<N_srv, N_webroot>>
SubDir     == <<N_srv, N_webroot, N_sub>>

SecretData == <<"h">>
BinData    == <<"xFF", "\r", "\n">>
ZzData     == <<"h">>

FileBytes == {"h", "\r", "\n", "xC3", "xA9"}

Contents == UNION {[1..n -> FileBytes] : n \in 0..MaxLen}

SubNames == {N_hidden, N_b_txt}

FsOf(txt, entries) ==
    LET dir(p)      == <<p, [kind |-> "dir", data |-> <<>>]>>
        file(p, d)  == <<p, [kind |-> "file", data |-> d]>>
        nodes == { dir(RootDir), dir(StartupDir), dir(WebRoot), dir(SubDir),
                   file(Append(StartupDir, N_secret), SecretData),
                   file(Append(WebRoot, N_a_txt), txt),
                   file(Append(WebRoot, N_a_bin), BinData),
                   file(Append(WebRoot, N_a_zz), ZzData),
                   <<Append(WebRoot, N_pipe), [kind |-> "other", data |-> <<>>]>> }
                 \cup { file(Append(SubDir, n), <<>>) : n \in entries }
    IN  [p \in {n[1] : n \in nodes} |-> (CHOOSE n \in nodes : n[1] = p)[2]]

Parent(p) == IF p = <<>> THEN <<>> ELSE SubSeq(p, 1, Len(p) - 1)

\* The names of the immediate entries of directory p (os.listdir).
Entries(f, p) == {q[Len(q)] : q \in {r \in DOMAIN f : r # <<>> /\ Parent(r) = p}}

IsPrefix(p, q) == Len(p) <= Len(q) /\ SubSeq(q, 1, Len(p)) = p

\* The kernel's walk along the components of a relative path, from `cur`:
\* every component is looked up in a directory, "" and "." stay, ".." goes
\* to the parent (the root is its own parent).
RECURSIVE Walk(_, _, _)
Walk(f, cur, comps) ==
    IF comps = <<>> THEN [ok |-> TRUE, path |-> cur]
    ELSE IF f[cur].kind # "dir" THEN [ok |-> FALSE, path |-> <<>>]
    ELSE LET c == Head(comps)
         IN  IF c = <<>> \/ c = <<".">> THEN Walk(f, cur, Tail(comps))
             ELSE IF c = <<".", ".">> THEN Walk(f, Parent(cur), Tail(comps))
             ELSE IF Append(cur, c) \in DOMAIN f
                  THEN Walk(f, Append(cur, c), Tail(comps))
             ELSE [ok |-> FALSE, path |-> <<>>]

\* glob.glob("*") in directory p: the entries whose name does not start
\* with a dot.
GlobStar(f, p) == {n \in Entries(f, p) : n[1] # "."}

\* os.path.basename: what follows the last "/".
basename(path) == LET c == SplitPath(path, <<>>) IN c[Len(c)]

\* os.path.splitext(name)[1]: from the last dot on, unless only dots
\* precede it.
Ext(name) ==
    LET dots == {i \in 1..Len(name) : name[i] = "."}
    IN  IF dots = {} THEN <<>>
        ELSE LET i == CHOOSE k \in dots : \A j \in dots : j <= k
             IN  IF \A j \in 1..(i - 1) : name[j] = "." THEN <<>>
                 ELSE SubSeq(name, i, Len(name))

\* Python's None as an element of the guessed pair, and as an object.
NoneElt == "<None>"
PyNone  == [none |-> TRUE]

\* mimetypes.guess_type(name): always a pair (type, encoding); the type is
\* None when the extension is not in the types map.
guess_type(name) ==
    LET e == Ext(name)
    IN  [type |-> IF e = <<".", "t", "x", "t">> THEN "text/plain"
                  ELSE IF e = <<".", "b", "i", "n">> THEN "application/octet-stream"
                  ELSE NoneElt,
         encoding |-> NoneElt]

-----------------------------------------------------------------------------
(* The URI resolver                                                        *)

\* The orders in which a listing can return the names of S.
Orderings(S) ==
    {o \in [1..Cardinality(S) -> S] : \A i, j \in 1..Cardinality(S) : i # j => o[i] # o[j]}

\* os.path.exists(path), with `cwd` the working directory: the walk reaches
\* a node (the model holds no symbolic links).
Lookup(f, cwd_, path) == Walk(f, cwd_, SplitPath(path, <<>>))

\* with open(path, "r") as fh: fh.read().  The locale's encoding is UTF-8.
ReadText(data) ==
    LET d == Utf8Decode(data)
    IN  [ok |-> d.ok, text |-> IF d.ok THEN UniversalNewlines(d.text) ELSE <<>>]

\* resolve_uri(uri, webroot), entered with working directory `cwd_`;
\* `dirlist` is what glob.glob("*") returns when the URI names a directory.
\* The result holds how the call ends (exc), what it returns, the working
\* directory it leaves behind and the nodes it tested, listed or read.
resolve_uri(f, cwd_, uri, webroot, dirlist) ==
    LET startup_dir  == cwd_
        relative_uri == <<".">> \o uri
        t            == Lookup(f, webroot, relative_uri)
        raise(e, d, acc) ==
            [exc |-> e, content |-> <<>>, mimetype |-> <<>>, cwd |-> d, accessed |-> acc]
        return(resp, mimetype, acc) ==
            \* os.chdir(startup_dir), then mimetype[0].encode('utf8')
            IF mimetype.type = NoneElt
            THEN raise("AttributeError", startup_dir, acc)
            ELSE [exc |-> "none", content |-> Join(CRLF, resp),
                  mimetype |-> <<mimetype.type>>, cwd |-> startup_dir, accessed |-> acc]
    IN  IF ~t.ok
        THEN raise("NameError", startup_dir, {})
        ELSE IF f[t.path].kind = "dir"
        THEN return([i \in 1..Len(dirlist) |-> Utf8Encode(dirlist[i])],
                    [type |-> "text/plain", encoding |-> NoneElt], {t.path})
        ELSE IF f[t.path].kind = "file"
        THEN LET filename == basename(relative_uri)
                 mimetype == guess_type(filename)
             IN  IF mimetype = PyNone
                 THEN raise("TypeError", webroot, {t.path})
                 ELSE IF mimetype.type = "text/plain"
                 THEN LET r == ReadText(f[t.path].data)
                      IN  IF ~r.ok
                          THEN raise("UnicodeDecodeError", webroot, {t.path})
                          ELSE return(<<Utf8Encode(r.text)>>, mimetype, {t.path})
                 ELSE return(<<f[t.path].data>>, mimetype, {t.path})
        ELSE raise("TypeError", startup_dir, {t.path})

\* The names glob.glob("*") has to order for this URI: those of the
\* directory the URI names, none when it names no directory.
Listed(f, uri, webroot) ==
    LET t == Lookup(f, webroot, <<".">> \o uri)
    IN  IF t.ok /\ f[t.path].kind = "dir" THEN GlobStar(f, t.path) ELSE {}

-----------------------------------------------------------------------------
(* What clients send                                                       *)

S_POST   == <<"P", "O", "S", "T">>
S_get    == <<"g", "e", "t">>
S_HTTP11 == <<"H", "T", "T", "P", "/", "1", ".", "1">>
N_no     == <<"n", "o">>

Sl(name) == <<"/">> \o name

UriAtxt    == Sl(N_a_txt)                                  \* /a.txt
UriSecret  == Sl(<<".", ".">>) \o Sl(N_secret)             \* /../secret.txt

Uris ==
    { UriAtxt,
      Sl(N_a_bin),                                         \* /a.bin
      Sl(N_a_zz),                                          \* /a.zz
      Sl(N_pipe),                                          \* /pipe
      Sl(N_sub),                                           \* /sub
      Sl(N_sub) \o Sl(N_b_txt),                            \* /sub/b.txt
      Sl(N_sub) \o Sl(<<".", ".">>) \o Sl(N_a_txt),        \* /sub/../a.txt
      Sl(N_a_txt) \o <<"/">>,                              \* /a.txt/
      Sl(N_no),                                            \* /no
      <<"/">>,                                             \* /
      UriSecret,
      Sl(<<".", ".">>),                                    \* /..
      <<".">>,                                             \* .
      <<".">> \o Sl(N_secret),                             \* ./secret.txt
      N_sub }                                              \* sub

RequestOf(method, u) == method \o <<" ">> \o u \o <<" ">> \o S_HTTP11 \o CRLF \o CRLF

Requests ==
    { RequestOf(S_GET, u) : u \in Uris }
    \cup { RequestOf(m, u) : m \in {S_POST, S_get},
                             u \in {UriAtxt, Sl(N_sub), Sl(N_no), UriSecret} }
    \cup { <<>>,                                                    \* nothing
           S_GET \o <<" ">> \o UriAtxt \o CRLF \o CRLF,             \* two tokens
           S_POST \o CRLF \o CRLF,                                  \* one token
           S_GET \o <<" ">> \o UriAtxt \o <<" ">> \o S_HTTP11 \o <<" ">> \o N_no \o CRLF,
           S_GET \o <<"\t">> \o UriAtxt \o <<" ", " ">> \o S_HTTP11 \o CRLF,
           S_GET \o <<" ">> \o UriAtxt \o <<"\n">> \o S_HTTP11 \o CRLF,
           <<"xFF">> \o RequestOf(S_GET, UriAtxt),                  \* not UTF-8
           RequestOf(S_POST, UriAtxt) \o <<"xFF">>,                 \* not UTF-8
           RequestOf(S_GET, Sl(<<"xC3", "xA9">>)) }                 \* GET /<U+E9>

-----------------------------------------------------------------------------
(* server()                                                                *)

VARIABLES
    atxt,         \* the bytes of /srv/webroot/a.txt
    subentries,   \* the names in /srv/webroot/sub
    cwd,          \* the process's working directory
    sock,         \* the listening socket: "listening" or "closed"
    pc,           \* where server() is: "accept", "recv", "parse", "resolve",
                  \* "send", "close"; "stopped" once it has returned after an
                  \* interrupt, "crashed" once an exception has left it
    conn,         \* the current connection: "none", "open" or "closed"
    inbuf,        \* the bytes the client of this connection sent
    request,      \* the decoded request
    uri,          \* what parse_request returned
    resolved,     \* resolve_uri has been called for this connection
    res,          \* how that call ended and what it returned
    accessed,     \* the nodes that call tested, listed or read
    response,     \* the response chosen for this connection
    sent,         \* the responses written to this connection
    exc,          \* the exception that left server(), "none" if none did
    interrupted   \* a KeyboardInterrupt has been raised

vars == <<atxt, subentries, cwd, sock, pc, conn, inbuf, request, uri, resolved,
          res, accessed, response, sent, exc, interrupted>>

FS == FsOf(atxt, subentries)

NoRes == [exc |-> "unset", content |-> <<>>, mimetype |-> <<>>]

Init ==
    /\ atxt \in Contents
    /\ subentries \in SUBSET SubNames
    /\ cwd = StartupDir
    /\ sock = "listening"
    /\ pc = "accept"
    /\ conn = "none"
    /\ inbuf = <<>>
    /\ request = <<>>
    /\ uri = <<>>
    /\ resolved = FALSE
    /\ res = NoRes
    /\ accessed = {}
    /\ response = <<>>
    /\ sent = <<>>
    /\ exc = "none"
    /\ interrupted = FALSE

\* An exception other than KeyboardInterrupt leaves the handling of the
\* connection: the finally clause closes the connection, no handler of
\* server() catches it, and server() ends with the listening socket never
\* closed by the code.
Raise(e) ==
    /\ conn' = "closed"
    /\ exc' = e
    /\ pc' = "crashed"

\* conn, addr = sock.accept(): a client connects and sends its bytes.
Accept ==
    /\ pc = "accept"
    /\ \E b \in Requests : inbuf' = b
    /\ conn' = "open"
    /\ request' = <<>>
    /\ uri' = <<>>
    /\ resolved' = FALSE
    /\ res' = NoRes
    /\ accessed' = {}
    /\ response' = <<>>
    /\ sent' = <<>>
    /\ pc' = "recv"
    /\ UNCHANGED <<atxt, subentries, cwd, sock, exc, interrupted>>

\* The recv loop: the request is every chunk decoded as UTF-8.  (A client's
\* bytes arrive in one chunk shorter than the 1024-byte read.)
Recv ==
    /\ pc = "recv"
    /\ LET d == Utf8Decode(inbuf)
       IN  IF d.ok
           THEN /\ request' = d.text
                /\ pc' = "parse"
                /\ UNCHANGED <<conn, exc>>
           ELSE /\ Raise("UnicodeDecodeError")
                /\ UNCHANGED request
    /\ UNCHANGED <<atxt, subentries, cwd, sock, inbuf, uri, resolved, res,
                   accessed, response, sent, interrupted>>

\* uri = parse_request(request), and its NotImplementedError handler.
Parse ==
    /\ pc = "parse"
    /\ LET r == parse_request(request)
       IN  IF r.exc = "none"
           THEN /\ uri' = r.uri
                /\ pc' = "resolve"
                /\ UNCHANGED <<response, conn, exc>>
           ELSE IF r.exc = "NotImplementedError"
           THEN /\ response' = response_method_not_allowed
                /\ pc' = "send"
                /\ UNCHANGED <<uri, conn, exc>>
           ELSE /\ Raise(r.exc)
                /\ UNCHANGED <<uri, response>>
    /\ UNCHANGED <<atxt, subentries, cwd, sock, inbuf, request, resolved, res,
                   accessed, sent, interrupted>>

\* content, mime_type = resolve_uri(uri, webroot), its NameError and
\* TypeError handlers, and response_ok on a normal return.
Resolve ==
    /\ pc = "resolve"
    /\ \E dirlist \in Orderings(Listed(FS, uri, WebRoot)) :
         LET r == resolve_uri(FS, cwd, uri, WebRoot, dirlist)
         IN  /\ resolved' = TRUE
             /\ res' = [exc |-> r.exc, content |-> r.content, mimetype |-> r.mimetype]
             /\ cwd' = r.cwd
             /\ accessed' = r.accessed
             /\ IF r.exc = "none"
                THEN /\ response' = response_ok(r.content, r.mimetype)
                     /\ pc' = "send"
                     /\ UNCHANGED <<conn, exc>>
                ELSE IF r.exc = "NameError"
                THEN /\ response' = response_not_found
                     /\ pc' = "send"
                     /\ UNCHANGED <<conn, exc>>
                ELSE IF r.exc = "TypeError"
                THEN /\ response' = response_unsupported_media_type
                     /\ pc' = "send"
                     /\ UNCHANGED <<conn, exc>>
                ELSE /\ Raise(r.exc)
                     /\ UNCHANGED response
    /\ UNCHANGED <<atxt, subentries, sock, inbuf, request, uri, sent, interrupted>>

\* conn.sendall(response)
Send ==
    /\ pc = "send"
    /\ sent' = Append(sent, response)
    /\ pc' = "close"
    /\ UNCHANGED <<atxt, subentries, cwd, sock, conn, inbuf, request, uri,
                   resolved, res, accessed, response, exc, interrupted>>

\* finally: conn.close(), and back to the top of the loop.
Close ==
    /\ pc = "close"
    /\ conn' = "closed"
    /\ pc' = "accept"
    /\ UNCHANGED <<atxt, subentries, cwd, sock, inbuf, request, uri, resolved,
                   res, accessed, response, sent, exc, interrupted>>

\* KeyboardInterrupt, wherever server() is: the finally clause closes an
\* open connection, the handler closes the listening socket and returns.
Interrupt ==
    /\ pc \in {"accept", "recv", "parse", "resolve", "send", "close"}
    /\ interrupted' = TRUE
    /\ conn' = IF conn = "open" THEN "closed" ELSE conn
    /\ sock' = "closed"
    /\ pc' = "stopped"
    /\ UNCHANGED <<atxt, subentries, cwd, inbuf, request, uri, resolved, res,
                   accessed, response, sent, exc>>

Next == Accept \/ Recv \/ Parse \/ Resolve \/ Send \/ Close \/ Interrupt

Spec == Init /\ [][Next]_vars

-----------------------------------------------------------------------------
(* What the properties speak of                                            *)

UnderWebroot(p) == IsPrefix(WebRoot, p)

\* The URI of a node of the webroot: "/" and its names below the webroot,
\* joined by "/".
UriOf(p) ==
    IF p = WebRoot THEN <<"/">>
    ELSE <<"/">> \o Join(<<"/">>, SubSeq(p, Len(WebRoot) + 1, Len(p)))

\* The URI names an entry of the webroot: the walk along its components,
\* from the webroot, ends on a node of the webroot.
HasEntry(u) ==
    LET t == Walk(FS, WebRoot, SplitPath(u, <<>>))
    IN  t.ok /\ UnderWebroot(t.path)

\* The lines of a body, as a set; an empty body has none.
RECURSIVE Lines(_, _)
Lines(body, cur) ==
    IF body = <<>> THEN {cur}
    ELSE IF Len(body) >= 2 /\ body[1] = "\r" /\ body[2] = "\n"
         THEN {cur} \cup Lines(SubSeq(body, 3, Len(body)), <<>>)
    ELSE Lines(Tail(body), Append(cur, body[1]))

LineSet(body) == IF body = <<>> THEN {} ELSE Lines(body, <<>>)

StatusLines == {"HTTP/1.1 200 OK", "HTTP/1.1 404 Not Found",
                "HTTP/1.1 405 Method Not Allowed",
                "HTTP/1.1 415 Unsupported Media Type"}

\* STATUS-LINE CRLF [Content-Type: mimetype CRLF] CRLF BODY
Layout(status, mimetype, body) ==
    <<status>> \o CRLF
    \o (IF mimetype = <<>> THEN <<>> ELSE <<"Content-Type: ">> \o mimetype \o CRLF)
    \o CRLF \o body

\* The tokens of the first line of the decoded request.
RequestTokens == SplitWs(FirstLine(request), <<>>)

-----------------------------------------------------------------------------
(* The properties                                                          *)

\* C1: every node resolve_uri tests, lists or reads is the webroot or a
\* descendant of it, whatever URI parse_request returned.
WebrootJail == \A p \in accessed : UnderWebroot(p)

\* C2: a GET for the URI of a regular file of the webroot whose extension has
\* no mimetype mapping makes resolve_uri raise TypeError, and the server
\* chooses and writes the 415 response.
UnmappedFileGives415 ==
    \A p \in DOMAIN FS :
        (/\ resolved
         /\ UnderWebroot(p)
         /\ FS[p].kind = "file"
         /\ guess_type(p[Len(p)]).type = NoneElt
         /\ uri = UriOf(p))
        => /\ res.exc = "TypeError"
           /\ response = response_unsupported_media_type
           /\ (pc \in {"close", "accept"} => sent = <<response_unsupported_media_type>>)

\* C3: for the URI of a directory of the webroot resolve_uri returns
\* text/plain and a body whose lines are, as a set, the names of all the
\* immediate entries of the directory, dot names included; an empty directory
\* gives an empty body.
DirectoryListingComplete ==
    \A p \in DOMAIN FS :
        (/\ resolved
         /\ UnderWebroot(p)
         /\ FS[p].kind = "dir"
         /\ uri = UriOf(p))
        => /\ res.exc = "none"
           /\ res.mimetype = <<"text/plain">>
           /\ LineSet(res.content) = Entries(FS, p)
           /\ (Entries(FS, p) = {} => res.content = <<>>)

\* C4: for the URI of a regular file of the webroot whose extension has a
\* mimetype mapping resolve_uri returns the guessed mimetype and the file's
\* bytes (for text/plain: the text the file reads as, encoded as UTF-8), and
\* the server answers 200 OK with that Content-Type and that body.
MappedFileServed ==
    \A p \in DOMAIN FS :
        (/\ resolved
         /\ UnderWebroot(p)
         /\ FS[p].kind = "file"
         /\ guess_type(p[Len(p)]).type # NoneElt
         /\ uri = UriOf(p))
        => /\ res.exc = "none"
           /\ res.mimetype = <<guess_type(p[Len(p)]).type>>
           /\ res.content = (IF guess_type(p[Len(p)]).type = "text/plain"
                             THEN Utf8Encode(ReadText(FS[p].data).text)
                             ELSE FS[p].data)
           /\ response = Layout("HTTP/1.1 200 OK", res.mimetype, res.content)
           /\ (pc \in {"close", "accept"} => sent = <<response>>)

\* C5: a GET whose URI names no entry of the webroot makes resolve_uri raise
\* NameError with no content, and the server chooses and writes the 404
\* response, which has no body.
MissingGives404 ==
    (resolved /\ ~HasEntry(uri))
    => /\ res.exc = "NameError"
       /\ res.content = <<>>
       /\ response = <<"HTTP/1.1 404 Not Found">> \o CRLF
       /\ (pc \in {"close", "accept"} => sent = <<response>>)

\* C6: a request whose first line has three tokens, the first of them not
\* exactly GET, never reaches resolve_uri; the 405 response is chosen, it is
\* the one response written, and the connection is then closed by the normal
\* path, with server() back at accept.
NonGetRequest == Len(RequestTokens) = 3 /\ RequestTokens[1] # S_GET

NonGetGives405 ==
    NonGetRequest
    => /\ ~resolved
       /\ accessed = {}
       /\ pc \notin {"resolve", "crashed"}
       /\ exc = "none"
       /\ (pc = "send" => response = response_method_not_allowed /\ sent = <<>>)
       /\ (pc = "close" => sent = <<response_method_not_allowed>> /\ conn = "open")
       /\ (conn = "closed" /\ ~interrupted
             => sent = <<response_method_not_allowed>> /\ pc = "accept")

NonGetAnswered ==
    /\ NonGetRequest
    /\ RequestTokens[1] = S_get
    /\ RequestTokens[2] = UriAtxt
    /\ conn = "closed"
    /\ pc = "accept"
    /\ sent = <<response_method_not_allowed>>

\* C7: a connection that is closed (no interrupt having been raised) has had
\* exactly one response written to it, of status 200, 404, 405 or 415,
\* whatever text the client sent.
OneResponsePerConnection ==
    (conn = "closed" /\ ~interrupted /\ Utf8Decode(inbuf).ok)
    => /\ Len(sent) = 1
       /\ sent[1][1] \in StatusLines

\* C8: server() ends only on an interrupt, with the listening socket closed;
\* after any connection it is back at accept.
OnlyInterruptStopsServer ==
    /\ pc \in {"stopped", "crashed"} => (interrupted /\ sock = "closed")
    /\ (conn = "closed" /\ ~interrupted) => pc = "accept"

\* C9: every response the builders produce is the status line, CRLF, a
\* Content-Type line when there is a mimetype, a blank line, and the body;
\* the 404, 405 and 415 responses have no Content-Type and an empty body.
ResponseLayout ==
    response # <<>>
    => IF response[1] = "HTTP/1.1 200 OK"
       THEN response = Layout(response[1], res.mimetype, res.content)
       ELSE response[1] \in StatusLines /\ response = Layout(response[1], <<>>, <<>>)

\* C10: however resolve_uri ends, the working directory is the one it was
\* entered with.
CwdRestored == resolved => cwd = StartupDir

====
